---- MODULE Spec2Model ----
(***************************************************************************)
(* permanganate: the square board builder (src/src/builder.rs), the        *)
(* lowering of a builder to a board graph (SquareBoardBuilder::build) and  *)
(* the rendering of a board (src/src/shape.rs, src/src/board.rs).          *)
(*                                                                         *)
(* A builder is a record with the fields of SquareBoardBuilder; every      *)
(* builder method is an operator from builder to builder, and an action    *)
(* applies it to the variable `builder`.                                   *)
(***************************************************************************)
EXTENDS Integers, Sequences, FiniteSets, TLC

(***************************************************************************)
(* Bounds of the model.                                                    *)
(***************************************************************************)
\* Number of mutating builder calls before build() in one behaviour.
MaxOps == 2
\* Width of a modelled usize.  The target's is 64; the model wraps at a
\* smaller width that is still far above every dimension of DimsSet, so a
\* wrapped coordinate compares with a dimension as it does in the program.
CoordBits == 16

UsizeModulus == 2 ^ CoordBits

\* Boards the behaviours start from, as (width, height).
DimsSet == { <<1, 1>>, <<2, 1>>, <<1, 2>>, <<2, 2>>, <<3, 4>> }

\* Display characters handed to add_termini.
Chars == { "a", "B" }

(***************************************************************************)
(* Location (src/lib/src/location.rs) and SquareStep (src/src/shape.rs).   *)
(***************************************************************************)
Directions == { "Up", "Down", "Left", "Right" }

\* SquareStep::VARIANTS, in declaration order.
VARIANTS == << "Up", "Down", "Left", "Right" >>

FORWARD_VARIANTS == { "Right", "Down" }

\* usize::wrapping_add_signed
\* An addition that stops at 0 and at the largest value.
saturating_add_signed(a, d) ==
    IF a + d < 0 THEN 0
    ELSE IF a + d >= UsizeModulus THEN UsizeModulus - 1
    ELSE a + d

wrapping_add_signed(a, d) == (a + d + UsizeModulus) % UsizeModulus

offset_by(loc, rhs) ==
    << wrapping_add_signed(loc[1], rhs[1]), wrapping_add_signed(loc[2], rhs[2]) >>

attempt_from(dir, loc) ==
    CASE dir = "Up"    -> offset_by(loc, << 0, -1 >>)
      [] dir = "Down"  -> offset_by(loc, << 0, 1 >>)
      [] dir = "Left"  -> offset_by(loc, << -1, 0 >>)
      [] dir = "Right" -> offset_by(loc, << 1, 0 >>)

invert(dir) ==
    CASE dir = "Up"    -> "Down"
      [] dir = "Down"  -> "Up"
      [] dir = "Left"  -> "Right"
      [] dir = "Right" -> "Left"

ensure_forward(dir) == IF dir \in FORWARD_VARIANTS THEN dir ELSE invert(dir)

\* BoardShape::direction_to: the first variant that steps from a to b, or "None".
direction_to(a, b) ==
    LET hits == { i \in 1..Len(VARIANTS) : attempt_from(VARIANTS[i], a) = b }
    IN  IF hits = {} THEN "None"
        ELSE VARIANTS[CHOOSE i \in hits : \A j \in hits : i <= j]

\* The derived Ord of Location: lexicographic on (x, y).
LocationGt(a, b) == a[1] > b[1] \/ (a[1] = b[1] /\ a[2] > b[2])

(***************************************************************************)
(* Cell (src/src/cell.rs).  Every cell is a record of the same three       *)
(* fields; a field a variant does not have holds 0 or "None".              *)
(***************************************************************************)
Empty == [ kind |-> "Empty", affiliation |-> 0, direction |-> "None" ]

Terminus(aff) == [ kind |-> "Terminus", affiliation |-> aff, direction |-> "None" ]

Path(aff) == [ kind |-> "Path", affiliation |-> aff, direction |-> "None" ]

\* Cell::Bridge { affiliation: None, direction }
Bridge(dir) == [ kind |-> "Bridge", affiliation |-> 0, direction |-> dir ]

(***************************************************************************)
(* SquareBoardBuilder (src/src/builder.rs).                                *)
(***************************************************************************)
FeatureOutOfBounds == "FeatureOutOfBounds"

WarpBadDirection == "WarpBadDirection"

\* The locations of the cell array of a board of the given dims.
Grid(dims) == (0..(dims[1] - 1)) \X (0..(dims[2] - 1))

with_dims(dims) ==
    [ dims                 |-> dims,
      cells                |-> [ l \in Grid(dims) |-> Empty ],
      affiliation_displays |-> << >>,
      invalid_reasons      |-> << >>,
      edge_blacklist       |-> {},
      location_blacklist   |-> {},
      bridges              |-> {},
      edge_whitelist       |-> {} ]

\* location.0 >= self.dims.0.get() || location.1 >= self.dims.1.get()
OutOfDims(b, loc) == loc[1] >= b.dims[1] \/ loc[2] >= b.dims[2]

\* self.invalid_reasons.push(reason)
Invalidate(b, reason) == [ b EXCEPT !.invalid_reasons = Append(@, reason) ]

\* add_termini with the bounds check on locations.0 only.
add_termini_checks_first(b, display, l1, l2) ==
    IF b.invalid_reasons # << >> THEN b
    ELSE IF OutOfDims(b, l1) THEN Invalidate(b, FeatureOutOfBounds)
    ELSE LET aff == Len(b.affiliation_displays) + 1
         IN  [ b EXCEPT !.affiliation_displays = Append(@, display),
                        !.cells = [ l \in DOMAIN @ |->
                                      IF l \in { l1, l2 } THEN Terminus(aff) ELSE @[l] ] ]

add_termini(b, display, l1, l2) ==
    IF b.invalid_reasons # << >> THEN b
    ELSE IF OutOfDims(b, l1) \/ OutOfDims(b, l2) THEN Invalidate(b, FeatureOutOfBounds)
    ELSE LET aff == Len(b.affiliation_displays) + 1
         IN  [ b EXCEPT !.affiliation_displays = Append(@, display),
                        !.cells = [ l \in DOMAIN @ |->
                                      IF l \in { l1, l2 } THEN Terminus(aff) ELSE @[l] ] ]

\* pop_termini that pops the display and leaves the cells as they are.
pop_termini_keeps_cells(b) ==
    IF b.invalid_reasons # << >> THEN b
    ELSE LET aff_to_remove == Len(b.affiliation_displays)
         IN  IF aff_to_remove = 0 THEN b
             ELSE [ b EXCEPT !.affiliation_displays = SubSeq(@, 1, aff_to_remove - 1) ]

\* pop_termini that empties every Terminus cell, whatever its affiliation.
pop_termini_clears_all(b) ==
    IF b.invalid_reasons # << >> THEN b
    ELSE LET aff_to_remove == Len(b.affiliation_displays)
         IN  IF aff_to_remove = 0 THEN b
             ELSE [ b EXCEPT !.affiliation_displays = SubSeq(@, 1, aff_to_remove - 1),
                             !.cells = [ l \in DOMAIN @ |->
                                           IF @[l].kind = "Terminus"
                                           THEN Empty ELSE @[l] ] ]

pop_termini(b) ==
    IF b.invalid_reasons # << >> THEN b
    ELSE LET aff_to_remove == Len(b.affiliation_displays)
         IN  IF aff_to_remove = 0 THEN b
             ELSE [ b EXCEPT !.affiliation_displays = SubSeq(@, 1, aff_to_remove - 1),
                             !.cells = [ l \in DOMAIN @ |->
                                           IF @[l] = Terminus(aff_to_remove)
                                           THEN Empty ELSE @[l] ] ]

\* add_bridge that accepts every location of the cell array.
add_bridge_in_bounds(b, loc) ==
    IF b.invalid_reasons # << >> THEN b
    ELSE IF OutOfDims(b, loc) THEN Invalidate(b, FeatureOutOfBounds)
    ELSE [ b EXCEPT !.bridges = @ \cup { loc } ]

add_bridge(b, loc) ==
    IF b.invalid_reasons # << >> THEN b
    ELSE IF ~ (1 <= loc[1] /\ loc[1] < b.dims[1] - 1)
            \/ ~ (1 <= loc[2] /\ loc[2] < b.dims[2] - 1)
         THEN Invalidate(b, FeatureOutOfBounds)
    ELSE [ b EXCEPT !.bridges = @ \cup { loc } ]

drop_location(b, loc) ==
    IF b.invalid_reasons # << >> THEN b
    ELSE IF OutOfDims(b, loc) THEN Invalidate(b, FeatureOutOfBounds)
    ELSE [ b EXCEPT !.location_blacklist = @ \cup { loc } ]

\* disconnect that walls off every pair of locations in bounds.
disconnect_any_pair(b, l1, l2) ==
    IF OutOfDims(b, l1) \/ OutOfDims(b, l2) THEN Invalidate(b, FeatureOutOfBounds)
    ELSE [ b EXCEPT !.edge_blacklist = @ \cup { { l1, l2 } } ]

\* No check of invalid_reasons: the method starts with the bounds checks.
disconnect(b, l1, l2) ==
    IF OutOfDims(b, l1) \/ OutOfDims(b, l2) THEN Invalidate(b, FeatureOutOfBounds)
    ELSE IF direction_to(l1, l2) = "None" THEN b
    ELSE [ b EXCEPT !.edge_blacklist = @ \cup { { l1, l2 } } ]

RECURSIVE disconnect_around(_, _, _)
disconnect_around(b, loc, directions) ==
    IF directions = << >> THEN b
    ELSE disconnect_around(disconnect(b, loc, attempt_from(Head(directions), loc)),
                           loc, Tail(directions))

is_valid(b) == IF b.invalid_reasons = << >> THEN "None" ELSE b.invalid_reasons

max_loc(b) == << b.dims[1] - 1, b.dims[2] - 1 >>

\* is_corner that knows the top left corner only.
is_corner_origin_only(b, loc) == loc = << 0, 0 >>

\* The `is_corner` match of add_warp, arm by arm.
is_corner(b, loc) ==
    CASE loc = << 0, 0 >> -> TRUE
      [] loc # << 0, 0 >> /\ loc[1] = 0 -> loc[2] = max_loc(b)[2]
      [] loc[1] # 0 /\ loc[2] = 0 -> loc[1] = max_loc(b)[1]
      [] loc[1] # 0 /\ loc[2] # 0 -> loc[1] = max_loc(b)[1] /\ loc[2] = max_loc(b)[2]

\* The edge a non-corner location is taken to lie on.
warp_edge(b, loc) ==
    CASE loc[1] = 0 -> "Left"
      [] loc[1] # 0 /\ loc[2] = 0 -> "Up"
      [] loc[1] # 0 /\ loc[2] # 0 ->
            IF loc[1] = max_loc(b)[1] THEN "Right" ELSE "Down"

warp_partner(b, loc, edge) ==
    CASE edge = "Up"    -> << loc[1], max_loc(b)[2] >>
      [] edge = "Down"  -> << loc[1], 0 >>
      [] edge = "Left"  -> << max_loc(b)[1], loc[2] >>
      [] edge = "Right" -> << 0, loc[2] >>

\* add_warp that stores the forward direction of the warp's axis.
add_warp_forward(b, loc, direction) ==
    IF b.invalid_reasons # << >> THEN b
    ELSE IF LocationGt(loc, max_loc(b)) THEN Invalidate(b, FeatureOutOfBounds)
    ELSE IF loc[1] # 0 /\ loc[2] = 0 /\ loc[1] # b.dims[1] - 1 /\ loc[2] # b.dims[2]
         THEN Invalidate(b, WarpBadDirection)
    ELSE IF is_corner(b, loc) /\ direction = "None" THEN Invalidate(b, WarpBadDirection)
    ELSE LET edge    == IF is_corner(b, loc) THEN direction ELSE warp_edge(b, loc)
             partner == warp_partner(b, loc, edge)
         IN  IF partner = loc THEN Invalidate(b, WarpBadDirection)
             ELSE [ b EXCEPT !.edge_whitelist =
                        @ \cup { [ pair |-> { loc, partner },
                                   direction |-> ensure_forward(edge) ] } ]

\* direction is a member of Directions or "None".
add_warp(b, loc, direction) ==
    IF b.invalid_reasons # << >> THEN b
    ELSE IF LocationGt(loc, max_loc(b)) THEN Invalidate(b, FeatureOutOfBounds)
    ELSE IF loc[1] # 0 /\ loc[2] = 0 /\ loc[1] # b.dims[1] - 1 /\ loc[2] # b.dims[2]
         THEN Invalidate(b, WarpBadDirection)
    ELSE IF is_corner(b, loc) /\ direction = "None" THEN Invalidate(b, WarpBadDirection)
    ELSE LET edge    == IF is_corner(b, loc) THEN direction ELSE warp_edge(b, loc)
             partner == warp_partner(b, loc, edge)
         IN  IF partner = loc THEN Invalidate(b, WarpBadDirection)
             ELSE [ b EXCEPT !.edge_whitelist =
                        @ \cup { [ pair |-> { loc, partner },
                                   direction |-> invert(ensure_forward(edge)) ] } ]

(***************************************************************************)
(* The board graph: petgraph's UnGraphMap<Node, Edge>.  A node is its      *)
(* (location, cell) value; there is at most one edge per unordered pair of *)
(* nodes, and adding an edge that exists replaces its weight.              *)
(***************************************************************************)
Node(loc, cell) == [ location |-> loc, cell |-> cell ]

EmptyGraph == [ nodes |-> {}, edges |-> {} ]

\* GraphMap::add_edge: inserts the endpoints, replaces the weight of an edge
\* that is already there.
add_edge(g, a, b, aff, dir) ==
    [ nodes |-> g.nodes \cup { a, b },
      edges |-> { e \in g.edges : e.ends # { a, b } }
                \cup { [ ends |-> { a, b }, affiliation |-> aff, direction |-> dir ] } ]

\* GraphMap::remove_node: the node and every edge on it.
remove_node(g, n) ==
    [ nodes |-> g.nodes \ { n },
      edges |-> { e \in g.edges : n \notin e.ends } ]

\* graph.nodes().filter(|n| n.location == loc)
NodesAt(g, loc) == { n \in g.nodes : n.location = loc }

\* graph.edges(n)
EdgesOf(g, n) == { e \in g.edges : n \in e.ends }

\* The endpoint of e that is not n (n itself on a self-loop).
OtherEnd(e, n) == IF e.ends = { n } THEN n ELSE CHOOSE m \in e.ends : m # n

(***************************************************************************)
(* SquareBoardBuilder::build, step by step.                                *)
(***************************************************************************)
\* The node of a location read through the location itself instead of its
\* as_index(): the cell of the transposed location, Empty beyond the array.
NodeOf_transposed(b, loc) ==
    Node(loc, IF << loc[2], loc[1] >> \in DOMAIN b.cells
              THEN b.cells[<< loc[2], loc[1] >>] ELSE Empty)

\* The `nodes` array of build: one node per location of the cell array.
NodeOf(b, loc) == Node(loc, b.cells[loc])

\* builder.rs 238-252: an edge down and an edge to the right of every
\* location, where the neighbour is in the array.
RECURSIVE GridEdges(_, _, _)
GridEdges(b, g, locs) ==
    IF locs = {} THEN g
    ELSE LET loc   == CHOOSE l \in locs : TRUE
             below == attempt_from("Down", loc)
             right == attempt_from("Right", loc)
             g1    == IF below \in Grid(b.dims)
                      THEN add_edge(g, NodeOf(b, loc), NodeOf(b, below), 0, "Down")
                      ELSE g
             g2    == IF right \in Grid(b.dims)
                      THEN add_edge(g1, NodeOf(b, loc), NodeOf(b, right), 0, "Right")
                      ELSE g1
         IN  GridEdges(b, g2, locs \ { loc })

\* builder.rs 254-256 indexes the `nodes` array with both ends of every warp
\* and unwraps: a warp end outside the array panics.
WarpPanics(b) ==
    \E w \in b.edge_whitelist : \E l \in w.pair : l \notin Grid(b.dims)

RECURSIVE AddWarps(_, _, _)
AddWarps(b, g, warps) ==
    IF warps = {} THEN g
    ELSE LET w  == CHOOSE x \in warps : TRUE
             l1 == CHOOSE l \in w.pair : TRUE
             l2 == CHOOSE l \in w.pair : l # l1
         IN  AddWarps(b, add_edge(g, NodeOf(b, l1), NodeOf(b, l2), 0, w.direction),
                      warps \ { w })

\* builder.rs 269-284: every edge of the old node goes to the lane of its axis.
RECURSIVE MoveToLanes(_, _, _, _)
MoveToLanes(g, loc, existing, old_edges) ==
    IF old_edges = {} THEN g
    ELSE LET e     == CHOOSE x \in old_edges : TRUE
             other == OtherEnd(e, existing)
             lane  == Node(loc, Bridge(ensure_forward(e.direction)))
         IN  MoveToLanes(add_edge(g, other, lane, 0, e.direction),
                         loc, existing, old_edges \ { e })

\* SplitBridge without the remove_node of line 287.
SplitBridge_keeps_old(g, loc) ==
    LET existing == CHOOSE n \in NodesAt(g, loc) : TRUE
    IN  MoveToLanes(g, loc, existing, EdgesOf(g, existing))

\* builder.rs 259-288 for one bridge location; the location has one node
\* when its turn comes (the find of line 261 has one candidate).
SplitBridge(g, loc) ==
    LET existing == CHOOSE n \in NodesAt(g, loc) : TRUE
    IN  remove_node(MoveToLanes(g, loc, existing, EdgesOf(g, existing)), existing)

\* builder.rs 259-288 over the bridge set.  The unwrap of line 261 panics
\* when no node is at a bridge location: r.panicked.
RECURSIVE AddBridges(_, _)
AddBridges(r, locs) ==
    IF locs = {} \/ r.panicked THEN r
    ELSE LET loc == CHOOSE l \in locs : TRUE
         IN  IF NodesAt(r.graph, loc) = {}
             THEN [ graph |-> r.graph, panicked |-> TRUE ]
             ELSE AddBridges([ graph |-> SplitBridge(r.graph, loc), panicked |-> FALSE ],
                             locs \ { loc })

\* builder.rs 290-293
RECURSIVE RemoveNodes(_, _)
RemoveNodes(g, ns) ==
    IF ns = {} THEN g
    ELSE LET n == CHOOSE x \in ns : TRUE
         IN  RemoveNodes(remove_node(g, n), ns \ { n })

\* Holes that take out the plain nodes and leave the lanes of a bridge.
DropHoles_spares_lanes(g, holes) ==
    RemoveNodes(g, { n \in g.nodes : n.location \in holes /\ n.cell.kind # "Bridge" })

DropHoles(g, holes) == RemoveNodes(g, { n \in g.nodes : n.location \in holes })

\* builder.rs 295-300: for every wall, remove_edge on every pair of a node at
\* one end and a node at the other: the edges whose two ends lie at the two
\* locations of the wall go.
RECURSIVE CutWalls(_, _)
CutWalls(g, walls) ==
    IF walls = {} THEN g
    ELSE LET w == CHOOSE x \in walls : TRUE
         IN  CutWalls([ nodes |-> g.nodes,
                        edges |-> { e \in g.edges :
                                      { n.location : n \in e.ends } # w } ],
                      walls \ { w })

\* The value build() returns: Err(&invalid_reasons), Ok(Board), or a panic.
Err(reasons) ==
    [ status |-> "Err", reasons |-> reasons, graph |-> EmptyGraph,
      dims |-> << 0, 0 >>, affiliation_displays |-> << >> ]

Panic ==
    [ status |-> "Panic", reasons |-> << >>, graph |-> EmptyGraph,
      dims |-> << 0, 0 >>, affiliation_displays |-> << >> ]

Ok(graph, dims, displays) ==
    [ status |-> "Ok", reasons |-> << >>, graph |-> graph,
      dims |-> dims, affiliation_displays |-> displays ]

build(b) ==
    IF b.invalid_reasons # << >> THEN Err(b.invalid_reasons)
    ELSE IF WarpPanics(b) THEN Panic
    ELSE LET grid    == GridEdges(b, EmptyGraph, Grid(b.dims))
             warped  == AddWarps(b, grid, b.edge_whitelist)
             bridged == AddBridges([ graph |-> warped, panicked |-> FALSE ], b.bridges)
         IN  IF bridged.panicked THEN Panic
             ELSE Ok(CutWalls(DropHoles(bridged.graph, b.location_blacklist),
                              b.edge_blacklist),
                     b.dims,
                     << "." >> \o b.affiliation_displays)

(***************************************************************************)
(* Rendering: SquareStep::gph_to_array (src/src/shape.rs), the Display of  *)
(* Board (src/src/board.rs) and SquareStep::print.                         *)
(***************************************************************************)
\* The ASCII letters, 'a'..'z' and 'A'..'Z', in order.
AsciiLower ==
    << "a", "b", "c", "d", "e", "f", "g", "h", "i", "j", "k", "l", "m",
       "n", "o", "p", "q", "r", "s", "t", "u", "v", "w", "x", "y", "z" >>

AsciiUpper ==
    << "A", "B", "C", "D", "E", "F", "G", "H", "I", "J", "K", "L", "M",
       "N", "O", "P", "Q", "R", "S", "T", "U", "V", "W", "X", "Y", "Z" >>

\* char::to_ascii_uppercase: 'a'..'z' to 'A'..'Z', any other char unchanged.
to_ascii_uppercase(c) ==
    IF \E i \in 1..Len(AsciiLower) : AsciiLower[i] = c
    THEN AsciiUpper[CHOOSE i \in 1..Len(AsciiLower) : AsciiLower[i] = c]
    ELSE c

\* char::to_ascii_lowercase: 'A'..'Z' to 'a'..'z', any other char unchanged.
to_ascii_lowercase(c) ==
    IF \E i \in 1..Len(AsciiUpper) : AsciiUpper[i] = c
    THEN AsciiLower[CHOOSE i \in 1..Len(AsciiUpper) : AsciiUpper[i] = c]
    ELSE c

\* shape.rs 70-127 for one index of the array: the assert of line 74 and the
\* unreachable!() arms panic.
CellPanics(board, loc) ==
    LET relevant_nodes == NodesAt(board.graph, loc)
    IN  \/ relevant_nodes = {}
        \/ /\ Cardinality(relevant_nodes) = 1
           /\ \E n \in relevant_nodes :
                \/ n.cell.kind = "Bridge"
                \/ /\ n.cell.kind \in { "Terminus", "Path" }
                   \* NonZero::new(affiliation).unwrap(), affiliation_displays.get(..).unwrap()
                   /\ \/ n.cell.affiliation = 0
                      \/ n.cell.affiliation + 1 > Len(board.affiliation_displays)
        \/ /\ Cardinality(relevant_nodes) > 1
           /\ \E n \in relevant_nodes : n.cell.kind # "Bridge"

\* The character of one location (board.rs 117-122), when CellPanics is false.
CellChar(board, loc) ==
    LET relevant_nodes == NodesAt(board.graph, loc)
    IN  IF Cardinality(relevant_nodes) = 1
        THEN LET cell == (CHOOSE n \in relevant_nodes : TRUE).cell
             IN  CASE cell.kind = "Terminus" ->
                        to_ascii_uppercase(board.affiliation_displays[cell.affiliation + 1])
                   [] cell.kind = "Path" ->
                        to_ascii_lowercase(board.affiliation_displays[cell.affiliation + 1])
                   [] cell.kind = "Empty" -> "."
        ELSE "+"

\* format!("{}", board): a panic, or the rows of the grid, top row first, each
\* row the characters of its columns (print ends every row with a newline).
render(board) ==
    IF \E loc \in Grid(board.dims) : CellPanics(board, loc)
    THEN [ status |-> "Panic", rows |-> << >> ]
    ELSE [ status |-> "Ok",
           rows   |-> [ y \in 1..board.dims[2] |->
                          [ x \in 1..board.dims[1] |-> CellChar(board, << x - 1, y - 1 >>) ] ] ]

(***************************************************************************)
(* GraphSolver (src/src/solver.rs) and exactly_one (logic.rs): a variable  *)
(* is its index, a literal a variable with a sign, a clause a sequence of  *)
(* literals, a formula a sequence of clauses.                              *)
(***************************************************************************)
\* Terminus::is_terminus of Node; 0 stands for None.
is_terminus(n) == IF n.cell.kind = "Terminus" THEN n.cell.affiliation ELSE 0

from_node(n) == << "Node", n >>

from_edge(e) == << "Edge", e >>

\* The elements of a set in the order an iterator yields them.
RECURSIVE collect_vec(_)
collect_vec(S) ==
    IF S = {} THEN << >>
    ELSE LET x == CHOOSE y \in S : TRUE
         IN  << x >> \o collect_vec(S \ { x })

\* GraphSolver::from
GraphSolverFrom(graph) ==
    LET termini == { is_terminus(n) : n \in graph.nodes } \ { 0 }
    IN  [ graph               |-> graph,
          affiliation_holders |-> collect_vec({ from_node(n) : n \in graph.nodes })
                                    \o collect_vec({ from_edge(e) : e \in graph.edges }),
          max_affiliation     |-> IF termini = {} THEN 0
                                  ELSE CHOOSE m \in termini : \A a \in termini : a <= m ]

valid_affiliations(s) == 0..s.max_affiliation

valid_non_null_affiliations(s) == 1..s.max_affiliation

num_affiliations(s) == s.max_affiliation + 1

\* find_position counts from 0.
affiliation_var(s, subject, affiliation) ==
    LET position == CHOOSE i \in 1..Len(s.affiliation_holders) :
                        s.affiliation_holders[i] = subject
    IN  (position - 1) * num_affiliations(s) + affiliation

\* Var::lit, Var::positive, Var::negative
Lit(var, polarity) == [ var |-> var, positive |-> polarity ]

invert_lit(lit) == Lit(lit.var, ~ lit.positive)

\* The place of the pair (i, j), i < j, among the 2-combinations of 1..n.
PairRank(n, i, j) == (i - 1) * n - ((i - 1) * i) \div 2 + (j - i)

\* exactly_one with the pairs of literals as they are, not inverted.
exactly_one_uninverted(lits) ==
    LET n == Len(lits)
    IN  [ r \in 1..((n * (n - 1)) \div 2) |->
            LET p == CHOOSE q \in (1..n) \X (1..n) :
                        q[1] < q[2] /\ PairRank(n, q[1], q[2]) = r
            IN  << lits[p[1]], lits[p[2]] >> ]
        \o << lits >>

\* exactly_one that returns no clause for an empty list.
exactly_one_skips_empty(lits) ==
    LET n == Len(lits)
    IN  IF n = 0 THEN << >>
        ELSE [ r \in 1..((n * (n - 1)) \div 2) |->
                 LET p == CHOOSE q \in (1..n) \X (1..n) :
                             q[1] < q[2] /\ PairRank(n, q[1], q[2]) = r
                 IN  << invert_lit(lits[p[1]]), invert_lit(lits[p[2]]) >> ]
             \o << lits >>

\* exactly_one that leaves out the clause `at least one`.
exactly_one_at_most(lits) ==
    LET n == Len(lits)
    IN  [ r \in 1..((n * (n - 1)) \div 2) |->
            LET p == CHOOSE q \in (1..n) \X (1..n) :
                        q[1] < q[2] /\ PairRank(n, q[1], q[2]) = r
            IN  << invert_lit(lits[p[1]]), invert_lit(lits[p[2]]) >> ]

exactly_one(lits) ==
    LET n == Len(lits)
    IN  [ r \in 1..((n * (n - 1)) \div 2) |->
            LET p == CHOOSE q \in (1..n) \X (1..n) :
                        q[1] < q[2] /\ PairRank(n, q[1], q[2]) = r
            IN  << invert_lit(lits[p[1]]), invert_lit(lits[p[2]]) >> ]
        \o << lits >>

\* The clauses of a formula, as a set.
ClausesOf(formula) == { formula[i] : i \in 1..Len(formula) }

\* graph.edges(vertex), collected.
IncidentEdges(s, vertex) == collect_vec(EdgesOf(s.graph, vertex))

\* solver.rs 151-152 and 170: the literals the solver is told to assume.
Assumptions(s) ==
    UNION { IF is_terminus(v) # 0
            THEN { Lit(affiliation_var(s, from_node(v), maybe_aff),
                       maybe_aff = is_terminus(v)) :
                     maybe_aff \in valid_affiliations(s) }
            ELSE { Lit(affiliation_var(s, from_node(v), 0), FALSE) } :
            v \in s.graph.nodes }

\* The formulae of a terminus, left out when it has no incident edge.
TerminusClauses_when_connected(s, vertex) ==
    LET aff      == is_terminus(vertex)
        incident == IncidentEdges(s, vertex)
    IN  IF incident = << >> THEN {}
        ELSE ClausesOf(exactly_one([ i \in 1..Len(incident) |->
                         Lit(affiliation_var(s, from_edge(incident[i]), aff), TRUE) ]))
             \cup
             ClausesOf(exactly_one([ i \in 1..Len(incident) |->
                         Lit(affiliation_var(s, from_edge(incident[i]), 0), FALSE) ]))

\* solver.rs 154-167: the two formulae of a terminus.
TerminusClauses(s, vertex) ==
    LET aff      == is_terminus(vertex)
        incident == IncidentEdges(s, vertex)
    IN  ClausesOf(exactly_one([ i \in 1..Len(incident) |->
                    Lit(affiliation_var(s, from_edge(incident[i]), aff), TRUE) ]))
        \cup
        ClausesOf(exactly_one([ i \in 1..Len(incident) |->
                    Lit(affiliation_var(s, from_edge(incident[i]), 0), FALSE) ]))

\* The formulae of a vertex that is not a terminus, without those that ask
\* for another incident edge of the affiliation next to every one.
PathClauses_no_second_edge(s, vertex) ==
    LET all_incident == IncidentEdges(s, vertex)
        n            == Len(all_incident)
        affs         == collect_vec(valid_non_null_affiliations(s))
        EdgeVar(i, aff) == affiliation_var(s, from_edge(all_incident[i]), aff)
    IN  ClausesOf(exactly_one([ i \in 1..Len(affs) |->
                    Lit(affiliation_var(s, from_node(vertex), affs[i]), TRUE) ]))
        \cup
        UNION { { << Lit(affiliation_var(s, from_node(vertex), aff), FALSE) >>
                    \o [ i \in 1..n |-> Lit(EdgeVar(i, aff), TRUE) ] }
                \cup
                { [ k \in 1..3 |-> Lit(EdgeVar(selection[k], aff), FALSE) ] :
                    selection \in { t \in (1..n) \X (1..n) \X (1..n) :
                                      t[1] < t[2] /\ t[2] < t[3] } } :
                aff \in valid_non_null_affiliations(s) }

\* solver.rs 172-222: the formulae of a vertex that is not a terminus.
PathClauses(s, vertex) ==
    LET all_incident == IncidentEdges(s, vertex)
        n            == Len(all_incident)
        affs         == collect_vec(valid_non_null_affiliations(s))
        EdgeVar(i, aff) == affiliation_var(s, from_edge(all_incident[i]), aff)
    IN  ClausesOf(exactly_one([ i \in 1..Len(affs) |->
                    Lit(affiliation_var(s, from_node(vertex), affs[i]), TRUE) ]))
        \cup
        UNION { { << Lit(affiliation_var(s, from_node(vertex), aff), FALSE) >>
                    \o [ i \in 1..n |-> Lit(EdgeVar(i, aff), TRUE) ] }
                \cup
                { [ i \in 1..n |-> Lit(EdgeVar(i, aff), e1 # i) ] : e1 \in 1..n }
                \cup
                { [ k \in 1..3 |-> Lit(EdgeVar(selection[k], aff), FALSE) ] :
                    selection \in { t \in (1..n) \X (1..n) \X (1..n) :
                                      t[1] < t[2] /\ t[2] < t[3] } } :
                aff \in valid_non_null_affiliations(s) }

\* Edge formulae with `A => BC` and without `BC => A`.
EdgeClauses_one_way(s, edge) ==
    LET affs == collect_vec(valid_affiliations(s))
        ends == collect_vec(edge.ends)
    IN  ClausesOf(exactly_one([ i \in 1..Len(affs) |->
                    Lit(affiliation_var(s, from_edge(edge), affs[i]), TRUE) ]))
        \cup
        UNION { LET a == affiliation_var(s, from_edge(edge), aff)
                    b == affiliation_var(s, from_node(ends[1]), aff)
                    c == affiliation_var(s, from_node(ends[2]), aff)
                IN  { << Lit(a, FALSE), Lit(b, TRUE) >>,
                      << Lit(a, FALSE), Lit(c, TRUE) >> } :
                aff \in valid_non_null_affiliations(s) }

\* solver.rs 226-250: the formulae of an edge.
EdgeClauses(s, edge) ==
    LET affs == collect_vec(valid_affiliations(s))
        ends == collect_vec(edge.ends)
    IN  ClausesOf(exactly_one([ i \in 1..Len(affs) |->
                    Lit(affiliation_var(s, from_edge(edge), affs[i]), TRUE) ]))
        \cup
        UNION { LET a == affiliation_var(s, from_edge(edge), aff)
                    b == affiliation_var(s, from_node(ends[1]), aff)
                    c == affiliation_var(s, from_node(ends[2]), aff)
                IN  { << Lit(a, FALSE), Lit(b, TRUE) >>,
                      << Lit(a, FALSE), Lit(c, TRUE) >>,
                      << Lit(a, TRUE), Lit(b, FALSE), Lit(c, FALSE) >> } :
                aff \in valid_non_null_affiliations(s) }

\* Every clause solve() adds to the SAT solver.
Formulae(s) ==
    UNION { IF is_terminus(v) # 0 THEN TerminusClauses(s, v) ELSE PathClauses(s, v) :
            v \in s.graph.nodes }
    \cup UNION { EdgeClauses(s, e) : e \in s.graph.edges }

\* The largest variable of a non-empty clause.
MaxVarOf(clause) ==
    CHOOSE v \in { clause[i].var : i \in 1..Len(clause) } :
        \A i \in 1..Len(clause) : clause[i].var <= v

\* Some literal of the clause is true in the model (the set of the variables
\* that are positive in it).
Satisfies(model, clause) ==
    \E i \in 1..Len(clause) : (clause[i].var \in model) = clause[i].positive

\* The assignments of the variables below k that falsify no clause all of
\* whose variables are below k, each extended to the variables up to nvars.
RECURSIVE ExtendModels(_, _, _, _)
ExtendModels(clauses, nvars, k, partial) ==
    IF k = nvars THEN partial
    ELSE LET closing == { c \in clauses : MaxVarOf(c) = k }
         IN  ExtendModels(clauses, nvars, k + 1,
                          { m \in partial \cup { p \cup { k } : p \in partial } :
                              \A c \in closing : Satisfies(m, c) })

\* solver.rs 252-258: the models varisat can return for the formulae under
\* the assumptions; none when they are inconsistent.
Models(s) ==
    LET clauses == Formulae(s) \cup { << l >> : l \in Assumptions(s) }
        nvars   == Len(s.affiliation_holders) * num_affiliations(s)
    IN  IF << >> \in clauses THEN {}
        ELSE ExtendModels(clauses, nvars, 0, { {} })

\* solved_affiliation_of with the flag read as it is named: the non-null
\* affiliations when nonzero, all of them otherwise.
solved_affiliation_of_as_named(s, model, subject, nonzero) ==
    LET range == IF nonzero THEN valid_non_null_affiliations(s)
                 ELSE valid_affiliations(s)
        found == { aff \in range : affiliation_var(s, subject, aff) \in model }
    IN  IF found = {} THEN -1
        ELSE CHOOSE aff \in found : \A other \in found : aff <= other

\* -1 stands for None.  The flag is named for the opposite of what it
\* selects: `nonzero` searches from affiliation 0.
solved_affiliation_of(s, model, subject, nonzero) ==
    LET range == IF nonzero THEN valid_affiliations(s)
                 ELSE valid_non_null_affiliations(s)
        found == { aff \in range : affiliation_var(s, subject, aff) \in model }
    IN  IF found = {} THEN -1
        ELSE CHOOSE aff \in found : \A other \in found : aff <= other

\* The values of Result<HashMap<HasAffiliation, AffiliationID>, SolverFailure>.
NoAffiliations == [ h \in {} |-> 0 ]

SolveErr(failure) == [ status |-> "Err", failure |-> failure, affiliations |-> NoAffiliations ]

SolveOk(affiliations) == [ status |-> "Ok", failure |-> "", affiliations |-> affiliations ]

\* solver.rs 260-280
Decode(s, model) ==
    LET holders == { s.affiliation_holders[i] : i \in 1..Len(s.affiliation_holders) }
        solved  == [ h \in holders |->
                       solved_affiliation_of(s, model, h, h[1] = "Edge") ]
    IN  IF \E h \in holders : solved[h] = -1 THEN SolveErr("NoAffFound")
        ELSE SolveOk(solved)

\* GraphSolver::solve: the results it can return, one for each model the
\* SAT solver can come up with.
solve(s) ==
    IF Models(s) = {} THEN { SolveErr("Inconsistent") }
    ELSE { Decode(s, model) : model \in Models(s) }

(***************************************************************************)
(* Board::solve (src/src/board.rs 83-112).                                 *)
(***************************************************************************)
\* The clone of a node with its cell left as it is.
recolour_keeps_empty(n, affiliations) == n

\* board.rs 88-96: the clone of a node, an Empty cell turned into a Path of
\* the affiliation the solution has for the node.
recolour(n, affiliations) ==
    IF n.cell = Empty
    THEN Node(n.location, Path(affiliations[from_node(n)]))
    ELSE n

\* solved_graph.nodes().find(|n| n.location == l) for every location l with
\* a node: the first node of that location in the iteration order of the
\* graph. The order of the two lanes of a bridge is not part of the graph
\* value, so either lane can be the one found.
Finds(nodes) ==
    LET locs  == { n.location : n \in nodes }
        multi == { l \in locs : Cardinality({ n \in nodes : n.location = l }) > 1 }
    IN  { [ l \in locs |->
              IF l \in multi THEN f[l]
              ELSE CHOOSE n \in nodes : n.location = l ] :
          f \in { g \in [ multi -> nodes ] : \A l \in multi : g[l].location = l } }

\* board.rs 98-108: every edge, with its decoded affiliation, added between
\* the nodes found at the locations of its ends.
RECURSIVE AttachEdges(_, _, _, _)
AttachEdges(g, edges, find, affiliations) ==
    IF edges = {} THEN g
    ELSE LET e  == CHOOSE x \in edges : TRUE
             n1 == CHOOSE n \in e.ends : TRUE
             n2 == OtherEnd(e, n1)
         IN  AttachEdges(add_edge(g, find[n1.location], find[n2.location],
                                  affiliations[from_edge(e)], e.direction),
                         edges \ { e }, find, affiliations)

\* Board::solve: the values it can return for the result the solver gave.
BoardSolve(b, sol) ==
    IF sol.status = "Err" THEN { Err(<< sol.failure >>) }
    ELSE LET nodes == { recolour(n, sol.affiliations) : n \in b.graph.nodes }
         IN  { Ok(AttachEdges([ nodes |-> nodes, edges |-> {} ], b.graph.edges,
                              find, sol.affiliations),
                  b.dims, b.affiliation_displays) : find \in Finds(nodes) }

(***************************************************************************)
(* The state machine: a builder made by with_dims, the calls made on it,   *)
(* the latest mutating call (last), the value build() returned, the value  *)
(* the solver returned for the board built and the value Board::solve      *)
(* returned. literals and clauses are an argument of exactly_one and the   *)
(* value it returned.                                                      *)
(***************************************************************************)
VARIABLES builder, board, last, nops, solution, solved, literals, clauses

vars == << builder, board, last, nops, solution, solved, literals, clauses >>

\* No solve() yet.
NoSolution == [ status |-> "None", failure |-> "", affiliations |-> NoAffiliations ]

\* exactly_one not called yet.
NoClauses == [ called |-> FALSE, value |-> << >> ]

\* No build() yet, no Board::solve yet.
NoBoard ==
    [ status |-> "None", reasons |-> << >>, graph |-> EmptyGraph,
      dims |-> << 0, 0 >>, affiliation_displays |-> << >> ]

\* Every location of the board and the nearest ones beyond its right and
\* bottom edges: the range of the locations the claims quantify over.
LocInputs(dims) == (0..dims[1]) \X (0..dims[2])

\* Lists of directions of length up to MaxDirs.
MaxDirs == 2

DirLists == UNION { [ 1..n -> Directions ] : n \in 0..MaxDirs }

(***************************************************************************)
(* The arguments the actions draw from.  Each set holds a corner, border   *)
(* and interior locations and locations out of range, where the board has  *)
(* them.                                                                   *)
(***************************************************************************)
TerminiLocs(dims) ==
    { << 0, 0 >>, << 1, 1 >>, << dims[1] - 1, dims[2] - 1 >>, << dims[1], 0 >> }

BridgeLocs(dims) ==
    { << 1, 1 >>, << 1, 2 >>, << 0, 1 >> } \cap LocInputs(dims)

DropLocs(dims) ==
    { << 0, 0 >>, << 1, 1 >>, << 1, 2 >>, << 0, dims[2] >> } \cap LocInputs(dims)

DisconnectPairs(dims) ==
    { << << 0, 0 >>, << 1, 0 >> >>, << << 0, 1 >>, << 0, 0 >> >>,
      << << 1, 1 >>, << 1, 2 >> >>, << << 1, 1 >>, << 0, 1 >> >>,
      << << 0, 0 >>, << 1, 1 >> >>, << << 0, 0 >>, << 0, 0 >> >>,
      << << 0, 0 >>, << 0, dims[2] >> >> }

DisconnectAroundInputs(dims) ==
    { << << 0, 0 >>, << "Down" >> >>,
      << << 0, 0 >>, << "Up" >> >>,
      << << 0, 0 >>, << "Left", "Right" >> >>,
      << << 0, 0 >>, << "Right", "Right" >> >>,
      << << 1, 1 >>, << "Up", "Down" >> >>,
      << << 1, 1 >>, << "Left", "Left" >> >>,
      << << dims[1], 0 >>, << "Left" >> >>,
      << << 0, 0 >>, << >> >> }

WarpInputs(dims) ==
    { << << 0, 1 >>, "None" >>,
      << << 1, 0 >>, "None" >>,
      << << dims[1] - 1, 1 >>, "None" >>,
      << << 1, dims[2] - 1 >>, "None" >>,
      << << 1, 1 >>, "None" >>,
      << << 1, 2 >>, "None" >>,
      << << 0, 1 >>, "Up" >>,
      << << dims[1], 0 >>, "None" >>,
      << << 0, dims[2] >>, "None" >> }
    \cup ({ << 0, 0 >>, << dims[1] - 1, dims[2] - 1 >> }
            \X { "None", "Up", "Down", "Left", "Right" })

Init ==
    /\ \E dims \in DimsSet : builder = with_dims(dims)
    /\ board = NoBoard
    /\ last = [ op |-> "with_dims", args |-> << >> ]
    /\ nops = 0
    /\ solution = NoSolution
    /\ solved = NoBoard
    /\ literals = << >>
    /\ clauses = NoClauses

\* One mutating call of the chain; build() ends the chain.
Call(op, args, b) ==
    /\ nops < MaxOps
    /\ board = NoBoard
    /\ builder' = b
    /\ last' = [ op |-> op, args |-> args ]
    /\ nops' = nops + 1
    /\ UNCHANGED << board, solution, solved, literals, clauses >>

AddTermini ==
    \E c \in Chars, l1 \in TerminiLocs(builder.dims), l2 \in TerminiLocs(builder.dims) :
        Call("add_termini", << c, l1, l2 >>, add_termini(builder, c, l1, l2))

PopTermini == Call("pop_termini", << >>, pop_termini(builder))

AddBridge ==
    \E loc \in BridgeLocs(builder.dims) :
        Call("add_bridge", << loc >>, add_bridge(builder, loc))

DropLocation ==
    \E loc \in DropLocs(builder.dims) :
        Call("drop_location", << loc >>, drop_location(builder, loc))

Disconnect ==
    \E p \in DisconnectPairs(builder.dims) :
        Call("disconnect", p, disconnect(builder, p[1], p[2]))

DisconnectAround ==
    \E a \in DisconnectAroundInputs(builder.dims) :
        Call("disconnect_around", a, disconnect_around(builder, a[1], a[2]))

AddWarp ==
    \E a \in WarpInputs(builder.dims) :
        Call("add_warp", a, add_warp(builder, a[1], a[2]))

\* build() takes &self: the builder, and with it the record of the latest
\* mutating call, stay as they are.
Build ==
    /\ board = NoBoard
    /\ board' = build(builder)
    /\ UNCHANGED << builder, last, nops, solution, solved, literals, clauses >>

Next ==
    \/ AddTermini
    \/ PopTermini
    \/ AddBridge
    \/ DropLocation
    \/ Disconnect
    \/ DisconnectAround
    \/ AddWarp
    \/ Build

Spec == Init /\ [][Next]_vars

(***************************************************************************)
(* Properties of the builder and of the boards it builds.                  *)
(***************************************************************************)
Valid(b) == b.invalid_reasons = << >>

\* The locations a property ranges over, for the board at hand.
AllLocs == LocInputs(builder.dims)

NoDirection == { "None" }

\* The locations of the two ends of an edge.
EdgeLocs(e) == { n.location : n \in e.ends }

TerminusNodes(g, a) == { n \in g.nodes : n.cell = Terminus(a) }

\* The affiliations some Terminus node of the graph carries.
CarriedAffiliations(g) ==
    { n.cell.affiliation : n \in { m \in g.nodes : m.cell.kind = "Terminus" } }

\* C1: once the invalid-reason list is non-empty, a call of add_termini,
\* pop_termini, add_bridge, drop_location, disconnect, disconnect_around or
\* add_warp, with any arguments, leaves the whole builder as it is.
C1_InvalidBuilderIgnoresCalls ==
    ~ Valid(builder) =>
        /\ \A c \in Chars, l1 \in AllLocs, l2 \in AllLocs :
              add_termini(builder, c, l1, l2) = builder
        /\ pop_termini(builder) = builder
        /\ \A loc \in AllLocs : add_bridge(builder, loc) = builder
        /\ \A loc \in AllLocs : drop_location(builder, loc) = builder
        /\ \A l1 \in AllLocs, l2 \in AllLocs : disconnect(builder, l1, l2) = builder
        /\ \A loc \in AllLocs, dirs \in DirLists :
              disconnect_around(builder, loc, dirs) = builder
        /\ \A loc \in AllLocs, dir \in Directions \cup NoDirection :
              add_warp(builder, loc, dir) = builder

\* add_termini with a location out of range, on a valid builder: one
\* FeatureOutOfBounds and nothing else changes, and build() returns it.
C2_Call ==
    Valid(builder) =>
        LET invalidated == [ builder EXCEPT !.invalid_reasons = << FeatureOutOfBounds >> ]
        IN  /\ build(invalidated) = Err(<< FeatureOutOfBounds >>)
            /\ \A l1 \in AllLocs, l2 \in AllLocs :
                  (OutOfDims(builder, l1) \/ OutOfDims(builder, l2)) =>
                      \A c \in Chars : add_termini(builder, c, l1, l2) = invalidated

\* A later call keeps the list non-empty and its first reason in place, and
\* a build() of an invalid builder returns the list and no board.
C2_Later ==
    /\ ~ Valid(builder) =>
          /\ ~ Valid(builder')
          /\ Head(builder'.invalid_reasons) = Head(builder.invalid_reasons)
    /\ (~ Valid(builder') /\ board' # NoBoard) => board' = Err(builder'.invalid_reasons)

\* C2: on a valid builder, add_termini with either location out of range (the
\* second alone included) appends exactly one FeatureOutOfBounds, changes no
\* cell and allocates no affiliation id or display char, and every later
\* build() returns Err with the invalid-reason list instead of a board.
C2_OutOfRangeTerminiInvalidate == [] C2_Call /\ [][C2_Later]_vars

\* C2 witness: add_termini was called with only its second location out of
\* range, and build() then returned the error.
C2_Witness ==
    /\ last.op = "add_termini"
    /\ ~ OutOfDims(builder, last.args[2])
    /\ OutOfDims(builder, last.args[3])
    /\ builder.invalid_reasons = << FeatureOutOfBounds >>
    /\ board = Err(<< FeatureOutOfBounds >>)

\* C3: build() never panics, and rendering a board build() returned never
\* panics.
C3_NoPanic ==
    /\ board.status # "Panic"
    /\ board.status = "Ok" => render(board).status = "Ok"

\* C4: a valid builder of dims (w, h) with no bridges, warps, holes or walls
\* builds a graph of w*h nodes and w*(h-1) + h*(w-1) edges.
C4_PlainGridCounts ==
    ( /\ board.status = "Ok"
      /\ builder.bridges = {}
      /\ builder.edge_whitelist = {}
      /\ builder.location_blacklist = {}
      /\ builder.edge_blacklist = {} ) =>
        LET w == builder.dims[1]
            h == builder.dims[2]
        IN  /\ Cardinality(board.graph.nodes) = w * h
            /\ Cardinality(board.graph.edges) = w * (h - 1) + h * (w - 1)

\* C5 as claimed: in a built graph, every affiliation some Terminus node
\* carries is carried by exactly two Terminus nodes.
C5_ExactlyTwoTermini ==
    board.status = "Ok" =>
        \A a \in CarriedAffiliations(board.graph) :
            Cardinality(TerminusNodes(board.graph, a)) = 2

\* C5 amended: in a built graph, every affiliation some Terminus node carries
\* is carried by one or two Terminus nodes, one at each location that the
\* builder's cells mark Terminus of that affiliation when build() is called
\* and that is neither a dropped nor a bridge location, whatever the order
\* of the calls; it is carried by two exactly when there are two such
\* locations.
C5_AtMostTwoTermini ==
    board.status = "Ok" =>
        \A a \in CarriedAffiliations(board.graph) :
            LET marked == { l \in Grid(builder.dims) :
                              /\ builder.cells[l] = Terminus(a)
                              /\ l \notin builder.location_blacklist
                              /\ l \notin builder.bridges }
            IN  /\ { n.location : n \in TerminusNodes(board.graph, a) } = marked
                /\ Cardinality(TerminusNodes(board.graph, a)) \in { 1, 2 }
                /\ Cardinality(TerminusNodes(board.graph, a)) = Cardinality(marked)

\* C5 witness: a built graph in which one affiliation has two Terminus nodes
\* and another, a location of which a later pair took, has one.
C5_Witness ==
    /\ board.status = "Ok"
    /\ \E a \in CarriedAffiliations(board.graph) :
          Cardinality(TerminusNodes(board.graph, a)) = 2
    /\ \E a \in CarriedAffiliations(board.graph) :
          Cardinality(TerminusNodes(board.graph, a)) = 1
\* The location pairs of the registered warps.
WarpPairs(b) == { w.pair : w \in b.edge_whitelist }

C7_BridgeLanes ==
    board.status = "Ok" =>
        \A loc \in Grid(builder.dims) :
            LET here == NodesAt(board.graph, loc)
            IN  IF loc \in builder.bridges \ builder.location_blacklist
                THEN here = { Node(loc, Bridge("Right")), Node(loc, Bridge("Down")) }
                ELSE /\ Cardinality(here) <= 1
                     /\ loc \in builder.location_blacklist => here = {}
                     /\ \A n \in here : n.cell.kind # "Bridge"

\* C7 witness: a built graph with two adjacent bridges, both with their lanes.
C7_Witness ==
    /\ board.status = "Ok"
    /\ \E l1 \in builder.bridges, l2 \in builder.bridges :
          /\ direction_to(l1, l2) # "None"
          /\ Cardinality(NodesAt(board.graph, l1)) = 2
          /\ Cardinality(NodesAt(board.graph, l2)) = 2

\* C8: in a built graph, a bridge lane at location L with forward direction d
\* has at most two edges, each to a node at attempt_from(L, d) or at
\* attempt_from(L, invert(d)).
C8_LanesKeepToTheirAxis ==
    board.status = "Ok" =>
        \A n \in board.graph.nodes :
            n.cell.kind = "Bridge" =>
                LET es == EdgesOf(board.graph, n)
                    d  == n.cell.direction
                IN  /\ Cardinality(es) <= 2
                    /\ \A e \in es :
                          OtherEnd(e, n).location
                            \in { attempt_from(d, n.location),
                                  attempt_from(invert(d), n.location) }

\* The in-range pairs of locations, for C9.
InDimsPairs(b) == { p \in AllLocs \X AllLocs : ~ OutOfDims(b, p[1]) /\ ~ OutOfDims(b, p[2]) }

\* C9 as claimed: on a valid builder, add_termini on an in-range pair and
\* then pop_termini give back the cells and the affiliation displays,
\* whatever the two locations held.
C9_PopUndoesAdd ==
    Valid(builder) =>
        \A p \in InDimsPairs(builder), c \in Chars :
            LET r == pop_termini(add_termini(builder, c, p[1], p[2]))
            IN  /\ r.cells = builder.cells
                /\ r.affiliation_displays = builder.affiliation_displays

\* C9 amended: on a valid builder, add_termini on an in-range pair of
\* locations neither of which holds a Terminus and then pop_termini give
\* back the builder: cells, affiliation displays and all other fields.
C9_PopUndoesAddOnFreeCells ==
    Valid(builder) =>
        \A p \in InDimsPairs(builder), c \in Chars :
            (builder.cells[p[1]].kind # "Terminus" /\ builder.cells[p[2]].kind # "Terminus")
                => pop_termini(add_termini(builder, c, p[1], p[2])) = builder

\* C9 witness: a valid builder that holds an earlier pair, left by
\* add_termini, and has a pair of free locations to add and pop.
C9_Witness ==
    /\ Valid(builder)
    /\ last.op = "add_termini"
    /\ \E l \in Grid(builder.dims) : builder.cells[l].kind = "Terminus"
    /\ \E p \in InDimsPairs(builder) :
          /\ p[1] # p[2]
          /\ builder.cells[p[1]].kind # "Terminus"
          /\ builder.cells[p[2]].kind # "Terminus"
          /\ add_termini(builder, "a", p[1], p[2]) # builder
          /\ pop_termini(add_termini(builder, "a", p[1], p[2])) = builder

\* C10: the affiliation displays are a stack of the pairs present.  A
\* successful add_termini pushes its char and marks its two locations with
\* the new top id N+1, touching no other cell; pop_termini pops the char and
\* empties the cells of id N, touching no other cell, and does nothing when
\* N = 0; every Terminus cell carries an id in 1..N; the display table of the
\* board is '.' followed by the N chars.
C10_AffiliationStack ==
    LET N == Len(builder.affiliation_displays)
    IN  /\ \A l \in Grid(builder.dims) :
              /\ builder.cells[l].kind \in { "Empty", "Terminus" }
              /\ builder.cells[l].kind = "Terminus" =>
                    builder.cells[l].affiliation \in 1..N
        /\ board.status = "Ok" =>
              board.affiliation_displays = << "." >> \o builder.affiliation_displays
        /\ Valid(builder) =>
              /\ \A p \in InDimsPairs(builder), c \in Chars :
                    LET r == add_termini(builder, c, p[1], p[2])
                    IN  /\ r.affiliation_displays = Append(builder.affiliation_displays, c)
                        /\ \A l \in Grid(builder.dims) :
                              r.cells[l] = IF l \in { p[1], p[2] } THEN Terminus(N + 1)
                                           ELSE builder.cells[l]
              /\ LET r == pop_termini(builder)
                 IN  IF N = 0 THEN r = builder
                     ELSE /\ r.affiliation_displays = SubSeq(builder.affiliation_displays, 1, N - 1)
                          /\ \A l \in Grid(builder.dims) :
                                r.cells[l] = IF builder.cells[l] = Terminus(N) THEN Empty
                                             ELSE builder.cells[l]

\* C10 witness: two pairs were added, the second with id 2, and the board
\* built from them has the table '.', first char, second char.
C10_Witness ==
    /\ board.status = "Ok"
    /\ last.op = "add_termini"
    /\ Len(builder.affiliation_displays) = 2
    /\ builder.affiliation_displays[1] # builder.affiliation_displays[2]
    /\ \E l \in Grid(builder.dims) : builder.cells[l] = Terminus(1)
    /\ \E l \in Grid(builder.dims) : builder.cells[l] = Terminus(2)
    /\ Len(board.affiliation_displays) = 3

\* 1 <= x <= w-2 and 1 <= y <= h-2.
StrictlyInterior(dims, loc) ==
    /\ 1 <= loc[1] /\ loc[1] <= dims[1] - 2
    /\ 1 <= loc[2] /\ loc[2] <= dims[2] - 2

\* Locations whose coordinates wrapped below zero, next to those in and
\* just beyond the board.
FarLocs == { << UsizeModulus - 1, 1 >>, << 1, UsizeModulus - 1 >> }

\* C11: on a valid builder, add_bridge(loc) registers the bridge, changes
\* nothing else and keeps the builder valid exactly when loc is strictly
\* interior; otherwise it registers nothing and pushes FeatureOutOfBounds.
C11_BridgeOnlyStrictlyInside ==
    Valid(builder) =>
        \A loc \in AllLocs \cup FarLocs :
            LET after == add_bridge(builder, loc)
            IN  IF StrictlyInterior(builder.dims, loc)
                THEN /\ Valid(after)
                     /\ after.bridges = builder.bridges \cup { loc }
                     /\ [ after EXCEPT !.bridges = builder.bridges ] = builder
                ELSE /\ after.invalid_reasons = << FeatureOutOfBounds >>
                     /\ [ after EXCEPT !.invalid_reasons = << >> ] = builder

C11_Witness ==
    /\ last.op = "add_bridge"
    /\ Valid(builder)
    /\ last.args[1] \in builder.bridges
    /\ \E loc \in Grid(builder.dims) :
          /\ ~ StrictlyInterior(builder.dims, loc)
          /\ add_bridge(builder, loc).invalid_reasons = << FeatureOutOfBounds >>
          /\ add_bridge(builder, loc).bridges = builder.bridges

\* The list with every appearance of a direction after its first removed.
RECURSIVE dedup(_)
dedup(dirs) ==
    IF dirs = << >> THEN << >>
    ELSE LET front == dedup(SubSeq(dirs, 1, Len(dirs) - 1))
             d     == dirs[Len(dirs)]
         IN  IF \E i \in 1..Len(front) : front[i] = d THEN front
             ELSE Append(front, d)

\* C12: for every builder state, location and direction list,
\* disconnect_around(loc, dirs) leaves the builder as
\* disconnect_around(loc, dedup(dirs)) does.
C12_DuplicateDirectionsIgnored ==
    \A loc \in AllLocs, dirs \in DirLists :
        disconnect_around(builder, loc, dirs)
            = disconnect_around(builder, loc, dedup(dirs))

\* Neighbours in the cell array.
Adjacent(a, b) ==
    \/ a[1] = b[1] /\ (a[2] = b[2] + 1 \/ b[2] = a[2] + 1)
    \/ a[2] = b[2] /\ (a[1] = b[1] + 1 \/ b[1] = a[1] + 1)

\* C13: on a valid builder that can take a call, disconnect(a, b) with both
\* locations in bounds
\* changes nothing when they are not adjacent; when they are, the order of
\* the two does not matter, the builder stays valid and the built graph is
\* the one built without the call less every edge between a node at a and a
\* node at b.
C13_DisconnectCutsOnePair ==
    (Valid(builder) /\ board = NoBoard /\ nops < MaxOps) =>
        LET before == build(builder)
        IN  \A a \in Grid(builder.dims), b \in Grid(builder.dims) :
                LET walled == disconnect(builder, a, b)
                IN  IF ~ Adjacent(a, b) THEN walled = builder
                    ELSE IF LocationGt(a, b) THEN walled = disconnect(builder, b, a)
                    ELSE /\ Valid(walled)
                         /\ LET after == build(walled)
                            IN  /\ after.status = before.status
                                /\ before.status = "Ok" =>
                                      /\ after.graph.nodes = before.graph.nodes
                                      /\ after.graph.edges =
                                            { e \in before.graph.edges :
                                                EdgeLocs(e) # { a, b } }

C13_Witness ==
    /\ board.status = "Ok"
    /\ last.op = "disconnect"
    /\ Adjacent(last.args[1], last.args[2])
    /\ last.args[1] \in builder.bridges
    /\ Cardinality(NodesAt(board.graph, last.args[1])) = 2
    /\ \A e \in board.graph.edges : EdgeLocs(e) # { last.args[1], last.args[2] }
    /\ \E e \in build([ builder EXCEPT !.edge_blacklist = {} ]).graph.edges :
          EdgeLocs(e) = { last.args[1], last.args[2] }

\* The call a record of `last` stands for, made on builder b.
Replay(call, b) ==
    CASE call.op = "add_termini" ->
            add_termini(b, call.args[1], call.args[2], call.args[3])
      [] call.op = "pop_termini" -> pop_termini(b)
      [] call.op = "add_bridge" -> add_bridge(b, call.args[1])
      [] call.op = "drop_location" -> drop_location(b, call.args[1])
      [] call.op = "disconnect" -> disconnect(b, call.args[1], call.args[2])
      [] call.op = "disconnect_around" ->
            disconnect_around(b, call.args[1], call.args[2])
      [] call.op = "add_warp" -> add_warp(b, call.args[1], call.args[2])
      [] OTHER -> b

\* A call that leaves the builder valid gives the same builder whether
\* drop_location(loc) is called right before it or right after it.
C14_Swap ==
    (nops' = nops + 1 /\ Valid(builder')) =>
        \A loc \in Grid(builder.dims) :
            drop_location(builder', loc) = Replay(last', drop_location(builder, loc))

\* A built graph has no node at a dropped location and no edge to it.
C14_Holes ==
    board.status = "Ok" =>
        \A loc \in builder.location_blacklist :
            /\ NodesAt(board.graph, loc) = {}
            /\ \A e \in board.graph.edges : loc \notin EdgeLocs(e)

\* C14: in a chain of calls that keeps the builder valid, drop_location(loc)
\* can change places with the call next to it without a change to the
\* builder, hence to the graph built; and the graph built has no node at loc
\* and no edge, warp included, incident to loc.
C14_DropAnywhere == [][C14_Swap]_vars /\ [] C14_Holes

C14_Witness ==
    /\ board.status = "Ok"
    /\ last.op \in { "add_bridge", "add_warp", "add_termini" }
    /\ last.args[IF last.op = "add_termini" THEN 2 ELSE 1] \in builder.location_blacklist
    /\ \/ builder.bridges # {}
       \/ builder.edge_whitelist # {}
       \/ builder.affiliation_displays # << >>
    /\ \E n \in build([ builder EXCEPT !.location_blacklist = {} ]).graph.nodes :
          n.location \in builder.location_blacklist

\* The four corners of the board.
Corners(dims) ==
    { << 0, 0 >>, << dims[1] - 1, 0 >>, << 0, dims[2] - 1 >>,
      << dims[1] - 1, dims[2] - 1 >> }

\* The locations of the four edges of the board.
OnEdge(dims, loc) ==
    /\ loc \in Grid(dims)
    /\ loc[1] \in { 0, dims[1] - 1 } \/ loc[2] \in { 0, dims[2] - 1 }

\* The cell across the board from loc, leaving through the edge on side dir.
Across(dims, loc, dir) ==
    CASE dir = "Up"    -> << loc[1], dims[2] - 1 >>
      [] dir = "Down"  -> << loc[1], 0 >>
      [] dir = "Left"  -> << dims[1] - 1, loc[2] >>
      [] dir = "Right" -> << 0, loc[2] >>

\* The side of the board a non-corner edge location lies on.
SideOf(dims, loc) ==
    CASE loc[1] = 0 -> "Left"
      [] loc[1] = dims[1] - 1 -> "Right"
      [] loc[2] = 0 -> "Up"
      [] OTHER -> "Down"

\* C15: on a valid builder of a board at least 3 by 3, add_warp(loc, None)
\* at a non-corner location of any of the four edges keeps the builder valid
\* and registers the warp to the cell on the opposite edge in the same row
\* or column; where the board builds and the two cells are neither dropped
\* nor joined already, the graph gains exactly the edge between the two.
C15_EdgeWarpsAccepted ==
    (Valid(builder) /\ builder.dims[1] >= 3 /\ builder.dims[2] >= 3) =>
        LET before == build(builder)
        IN  \A loc \in { l \in Grid(builder.dims) :
                            OnEdge(builder.dims, l) /\ l \notin Corners(builder.dims) } :
                LET after   == add_warp(builder, loc, "None")
                    partner == Across(builder.dims, loc, SideOf(builder.dims, loc))
                    built   == build(after)
                IN  /\ Valid(after)
                    /\ { loc, partner } \in WarpPairs(after)
                    /\ ( /\ before.status = "Ok"
                         /\ { loc, partner } \cap builder.location_blacklist = {}
                         /\ { loc, partner } \notin WarpPairs(builder) )
                       => /\ built.status = "Ok"
                          /\ built.graph.nodes = before.graph.nodes
                          /\ before.graph.edges \subseteq built.graph.edges
                          /\ \E e \in built.graph.edges :
                                /\ EdgeLocs(e) = { loc, partner }
                                /\ built.graph.edges = before.graph.edges \cup { e }
                                /\ e \notin before.graph.edges

\* C16: on a valid builder, add_warp(loc, dir) at a location that lies on
\* none of the four edges, for any dir including None, registers no warp
\* and pushes WarpBadDirection.
C16_InteriorWarpRejected ==
    Valid(builder) =>
        \A loc \in Grid(builder.dims), dir \in Directions \cup NoDirection :
            ~ OnEdge(builder.dims, loc) =>
                add_warp(builder, loc, dir) = Invalidate(builder, WarpBadDirection)

\* C17: on a valid builder, add_warp(loc, dir) with loc.x >= w or loc.y >= h
\* registers no warp and pushes FeatureOutOfBounds.
C17_OutOfRangeWarpRejected ==
    Valid(builder) =>
        \A loc \in AllLocs \cup FarLocs, dir \in Directions \cup NoDirection :
            (loc[1] >= builder.dims[1] \/ loc[2] >= builder.dims[2]) =>
                add_warp(builder, loc, dir) = Invalidate(builder, FeatureOutOfBounds)

\* A direction that leaves the board from loc.
PointsOff(dims, loc, dir) ==
    CASE dir = "Up"    -> loc[2] = 0
      [] dir = "Down"  -> loc[2] = dims[2] - 1
      [] dir = "Left"  -> loc[1] = 0
      [] dir = "Right" -> loc[1] = dims[1] - 1
      [] OTHER -> FALSE

\* C18: on a valid builder of a board at least 2 by 2, add_warp at a corner
\* with a direction that points off the board there registers the warp to
\* the cell across the board, changes nothing else and keeps the builder
\* valid; with no direction or any other direction it registers nothing and
\* pushes WarpBadDirection.
C18_CornerWarpNeedsOutwardDirection ==
    (Valid(builder) /\ builder.dims[1] >= 2 /\ builder.dims[2] >= 2) =>
        \A loc \in Corners(builder.dims), dir \in Directions \cup NoDirection :
            LET after == add_warp(builder, loc, dir)
            IN  IF PointsOff(builder.dims, loc, dir)
                THEN /\ Valid(after)
                     /\ { loc, Across(builder.dims, loc, dir) } \in WarpPairs(after)
                     /\ WarpPairs(after) =
                            WarpPairs(builder) \cup { { loc, Across(builder.dims, loc, dir) } }
                     /\ [ after EXCEPT !.edge_whitelist = builder.edge_whitelist ] = builder
                ELSE after = Invalidate(builder, WarpBadDirection)

C18_Witness ==
    /\ last.op = "add_warp"
    /\ builder.dims[1] >= 2 /\ builder.dims[2] >= 2
    /\ last.args[1] = << builder.dims[1] - 1, builder.dims[2] - 1 >>
    /\ PointsOff(builder.dims, last.args[1], last.args[2])
    /\ Valid(builder)
    /\ { last.args[1], Across(builder.dims, last.args[1], last.args[2]) }
          \in WarpPairs(builder)
    /\ ~ Valid(add_warp(builder, last.args[1], "None"))
    /\ ~ Valid(add_warp(builder, last.args[1], "Up"))

(***************************************************************************)
(* Solving: boards built from small puzzles, each changed by up to         *)
(* MaxPuzzleOps further calls, and solved.                                 *)
(***************************************************************************)
\* Number of calls made on a puzzle before it is built.
MaxPuzzleOps == 1

BuilderCall(op, args) == [ op |-> op, args |-> args ]

\* A straight line; two straight lines; two lines that cross on a bridge,
\* the corners dropped; two pairs walled off from a block of four cells; a
\* pair joined through a warp around another pair; a pair in opposite
\* corners, which has no solution.
Puzzles ==
    { [ dims |-> << 3, 1 >>,
        calls |-> << BuilderCall("add_termini", << "a", << 0, 0 >>, << 2, 0 >> >>) >> ],
      [ dims |-> << 3, 2 >>,
        calls |-> << BuilderCall("add_termini", << "a", << 0, 0 >>, << 2, 0 >> >>),
                     BuilderCall("add_termini", << "B", << 0, 1 >>, << 2, 1 >> >>) >> ],
      [ dims |-> << 3, 3 >>,
        calls |-> << BuilderCall("add_termini", << "a", << 1, 0 >>, << 1, 2 >> >>),
                     BuilderCall("add_termini", << "B", << 0, 1 >>, << 2, 1 >> >>),
                     BuilderCall("drop_location", << << 0, 0 >> >>),
                     BuilderCall("drop_location", << << 2, 0 >> >>),
                     BuilderCall("drop_location", << << 0, 2 >> >>),
                     BuilderCall("drop_location", << << 2, 2 >> >>),
                     BuilderCall("add_bridge", << << 1, 1 >> >>) >> ],
      [ dims |-> << 4, 3 >>,
        calls |-> << BuilderCall("add_termini", << "a", << 1, 0 >>, << 1, 2 >> >>),
                     BuilderCall("add_termini", << "B", << 0, 1 >>, << 3, 1 >> >>),
                     BuilderCall("drop_location", << << 0, 0 >> >>),
                     BuilderCall("drop_location", << << 2, 0 >> >>),
                     BuilderCall("drop_location", << << 3, 0 >> >>),
                     BuilderCall("drop_location", << << 0, 2 >> >>),
                     BuilderCall("drop_location", << << 2, 2 >> >>),
                     BuilderCall("drop_location", << << 3, 2 >> >>),
                     BuilderCall("add_bridge", << << 1, 1 >> >>) >> ],
      [ dims |-> << 2, 4 >>,
        calls |-> << BuilderCall("add_termini", << "a", << 0, 0 >>, << 1, 0 >> >>),
                     BuilderCall("add_termini", << "B", << 0, 3 >>, << 1, 3 >> >>),
                     BuilderCall("disconnect_around", << << 0, 1 >>, << "Up" >> >>),
                     BuilderCall("disconnect_around", << << 1, 1 >>, << "Up" >> >>),
                     BuilderCall("disconnect", << << 0, 2 >>, << 0, 3 >> >>),
                     BuilderCall("disconnect", << << 1, 3 >>, << 1, 2 >> >>) >> ],
      [ dims |-> << 4, 1 >>,
        calls |-> << BuilderCall("add_termini", << "a", << 0, 0 >>, << 3, 0 >> >>),
                     BuilderCall("add_termini", << "B", << 1, 0 >>, << 2, 0 >> >>),
                     BuilderCall("add_warp", << << 0, 0 >>, "Left" >>) >> ],
      [ dims |-> << 2, 2 >>,
        calls |-> << BuilderCall("add_termini", << "a", << 0, 0 >>, << 1, 1 >> >>) >> ] }

\* The builder after a chain of calls.
RECURSIVE Chain(_, _)
Chain(b, calls) ==
    IF calls = << >> THEN b
    ELSE Chain(Replay(Head(calls), b), Tail(calls))

SolveInit ==
    /\ \E p \in Puzzles :
          /\ builder = Chain(with_dims(p.dims), p.calls)
          /\ last = p.calls[Len(p.calls)]
    /\ board = NoBoard
    /\ nops = MaxOps - MaxPuzzleOps
    /\ solution = NoSolution
    /\ solved = NoBoard
    /\ literals = << >>
    /\ clauses = NoClauses

\* Board::solve on the board built: GraphSolver::from(&self.graph).solve()
\* and the graph made from its result.
Solve ==
    /\ board.status = "Ok"
    /\ solution = NoSolution
    /\ solution' \in solve(GraphSolverFrom(board.graph))
    /\ solved' \in BoardSolve(board, solution')
    /\ UNCHANGED << builder, board, last, nops, literals, clauses >>

SolveNext ==
    \/ Next
    \/ Solve

SolveSpec == SolveInit /\ [][SolveNext]_vars

\* The affiliation the assignment gives a node or an edge.
AffOfNode(n) == solution.affiliations[from_node(n)]

AffOfEdge(e) == solution.affiliations[from_edge(e)]

\* C19: in every assignment solve returns, a terminus with affiliation A has
\* affiliation A and exactly one incident edge with affiliation A, a node
\* that is not a terminus has a non-null affiliation A and exactly two
\* incident edges with affiliation A, and every other incident edge of
\* either has affiliation 0.
C19_OneEdgeAtTerminiTwoOnPaths ==
    solution.status = "Ok" =>
        \A n \in board.graph.nodes :
            LET incident == EdgesOf(board.graph, n)
                own      == { e \in incident : AffOfEdge(e) = AffOfNode(n) }
            IN  /\ AffOfNode(n) >= 1
                /\ is_terminus(n) # 0 => AffOfNode(n) = is_terminus(n)
                /\ Cardinality(own) = IF is_terminus(n) # 0 THEN 1 ELSE 2
                /\ \A e \in incident \ own : AffOfEdge(e) = 0

C19_Witness ==
    /\ solution.status = "Ok"
    /\ \E n \in board.graph.nodes :
          /\ n.cell.kind = "Bridge"
          /\ Cardinality({ e \in EdgesOf(board.graph, n) : AffOfEdge(e) = AffOfNode(n) }) = 2
    /\ \E n \in board.graph.nodes :
          /\ n.cell.kind = "Terminus"
          /\ Cardinality(EdgesOf(board.graph, n)) = 1

\* C20: in every assignment solve returns, an edge has affiliation 0 exactly
\* when its two ends have different affiliations, and otherwise has the
\* affiliation the two share.
C20_EdgeFollowsItsEnds ==
    solution.status = "Ok" =>
        \A e \in board.graph.edges :
            LET affs == { AffOfNode(n) : n \in e.ends }
            IN  /\ AffOfEdge(e) = 0 <=> Cardinality(affs) = 2
                /\ AffOfEdge(e) # 0 => affs = { AffOfEdge(e) }

C20_Witness ==
    /\ solution.status = "Ok"
    /\ \E e \in board.graph.edges : AffOfEdge(e) = 0
    /\ \E e \in board.graph.edges : AffOfEdge(e) = 2
    /\ \E e \in board.graph.edges :
          AffOfEdge(e) = 1 /\ \E n \in e.ends : n.cell.kind # "Terminus"

\* The nodes joined to the nodes of seen by edges of affiliation a between
\* nodes of affiliation a, seen included.
RECURSIVE Joined(_, _)
Joined(a, seen) ==
    LET more == { m \in board.graph.nodes \ seen :
                    /\ AffOfNode(m) = a
                    /\ \E e \in board.graph.edges :
                          /\ AffOfEdge(e) = a
                          /\ m \in e.ends
                          /\ e.ends \cap seen # {} }
    IN  IF more = {} THEN seen ELSE Joined(a, seen \cup more)

\* Every affiliation the graph carries has exactly two terminus nodes.
TwoTerminiEach ==
    \A a \in CarriedAffiliations(board.graph) :
        Cardinality(TerminusNodes(board.graph, a)) = 2

\* C21: when solve returns Ok on a board where every affiliation has exactly
\* two termini, the two termini of every affiliation A are joined by a path
\* of edges of affiliation A through nodes of affiliation A, and every node
\* has a non-null affiliation.
C21_TerminiJoinedAllCellsColoured ==
    (solution.status = "Ok" /\ TwoTerminiEach) =>
        /\ \A a \in CarriedAffiliations(board.graph) :
              \A t \in TerminusNodes(board.graph, a) :
                  /\ AffOfNode(t) = a
                  /\ TerminusNodes(board.graph, a) \subseteq Joined(a, { t })
        /\ \A n \in board.graph.nodes : AffOfNode(n) >= 1

C21_Witness ==
    /\ solution.status = "Ok"
    /\ TwoTerminiEach
    /\ Cardinality(CarriedAffiliations(board.graph)) = 2
    /\ \E a \in CarriedAffiliations(board.graph) :
          \E t \in TerminusNodes(board.graph, a) :
              Cardinality(Joined(a, { t })) >= 3

\* A terminus node of the graph built has no incident edge.
IsolatedTerminus ==
    \E n \in board.graph.nodes :
        is_terminus(n) # 0 /\ EdgesOf(board.graph, n) = {}

\* C22: solving a graph with a terminus node that has no incident edge gives
\* Err(Inconsistent), and Board::solve gives no board.
C22_IsolatedTerminusInconsistent ==
    (solution # NoSolution /\ IsolatedTerminus) =>
        /\ solution = SolveErr("Inconsistent")
        /\ solved.status = "Err"

C22_Witness ==
    /\ solution # NoSolution
    /\ IsolatedTerminus
    /\ \E n \in board.graph.nodes : EdgesOf(board.graph, n) # {}

\* What identifies a node: its location and, for a bridge lane, the direction
\* of the lane.
NodeKey(n) ==
    << n.location, IF n.cell.kind = "Bridge" THEN n.cell.direction ELSE "None" >>

\* The edges of a graph as the pairs of node keys they join, with their
\* direction.
Topology(g) ==
    { << { NodeKey(n) : n \in e.ends }, e.direction >> : e \in g.edges }

\* C23: Board::solve leaves the topology of the graph unchanged: the same
\* nodes, an edge between the corresponding nodes for every edge of the graph
\* solved, every bridge lane with the incident edges it had, and no cell
\* changed but the Empty ones.
C23_SolveKeepsTopology ==
    solved.status = "Ok" =>
        /\ { NodeKey(n) : n \in solved.graph.nodes }
              = { NodeKey(n) : n \in board.graph.nodes }
        /\ Topology(solved.graph) = Topology(board.graph)
        /\ \A n \in board.graph.nodes :
              n.cell.kind = "Bridge" =>
                  { EdgeLocs(e) : e \in EdgesOf(solved.graph, n) }
                    = { EdgeLocs(e) : e \in EdgesOf(board.graph, n) }
        /\ \A n \in board.graph.nodes :
              n.cell.kind # "Empty" => n \in solved.graph.nodes

\* max_affiliation of the graph solved.
MaxAffiliation == GraphSolverFrom(board.graph).max_affiliation

\* C24: after a successful solve no node is Empty: a node that was Empty is
\* a Path with an affiliation in 1..max_affiliation at the same location, a
\* Terminus or Bridge node is as it was, there are no further nodes, and a
\* location without a node still has none.
C24_SolveColoursEmptyCellsOnly ==
    solved.status = "Ok" =>
        /\ \A n \in solved.graph.nodes : n.cell.kind # "Empty"
        /\ \A n \in board.graph.nodes :
              IF n.cell.kind = "Empty"
              THEN /\ AffOfNode(n) \in 1..MaxAffiliation
                   /\ NodesAt(solved.graph, n.location)
                        = { Node(n.location, Path(AffOfNode(n))) }
              ELSE n \in solved.graph.nodes
        /\ Cardinality(solved.graph.nodes) = Cardinality(board.graph.nodes)
        /\ \A loc \in Grid(board.dims) :
              NodesAt(board.graph, loc) = {} => NodesAt(solved.graph, loc) = {}

C24_Witness ==
    /\ solved.status = "Ok"
    /\ \E n \in board.graph.nodes : n.cell.kind = "Empty"
    /\ \E n \in solved.graph.nodes : n.cell.kind = "Bridge"
    /\ \E n \in solved.graph.nodes : n.cell.kind = "Terminus"
    /\ \E loc \in Grid(board.dims) : NodesAt(solved.graph, loc) = {}

\* C25: rendering a built, unsolved board of dims (w, h) gives h lines of w
\* characters: the uppercase display character at a terminus location, '+' at
\* a bridge location and '.' at every other location, the dropped ones, which
\* have no node, included.
C25_UnsolvedRender ==
    board.status = "Ok" =>
        LET w == board.dims[1]
            h == board.dims[2]
            r == render(board)
        IN  /\ r.status = "Ok"
            /\ Len(r.rows) = h
            /\ \A y \in 1..h :
                  /\ Len(r.rows[y]) = w
                  /\ \A x \in 1..w :
                        LET at == NodesAt(board.graph, << x - 1, y - 1 >>)
                        IN  r.rows[y][x] =
                              IF \E n \in at : n.cell.kind = "Terminus"
                              THEN to_ascii_uppercase(
                                     board.affiliation_displays[
                                       (CHOOSE n \in at : n.cell.kind = "Terminus")
                                          .cell.affiliation + 1])
                              ELSE IF \E n \in at : n.cell.kind = "Bridge"
                                   THEN "+"
                                   ELSE "."

\* The nodes of affiliation a that no path of affiliation a joins to a
\* terminus of a.
Stray(a) ==
    { n \in board.graph.nodes : AffOfNode(n) = a }
       \ Joined(a, TerminusNodes(board.graph, a))

\* The edges of affiliation a on node n.
OwnEdges(a, n) == { e \in EdgesOf(board.graph, n) : AffOfEdge(e) = a }

\* C26: the clauses do not force every coloured cell onto the path between
\* its termini. When solve returns Ok on a board where every affiliation has
\* exactly two termini, the cells of an affiliation that are not on the path
\* between its termini form cycles of that affiliation (every one of them
\* has exactly two edges of the affiliation, which stay among them), and
\* there is a board with such a cycle (C26_Witness).
C26_StrayCellsFormCycles ==
    (solution.status = "Ok" /\ TwoTerminiEach) =>
        \A a \in CarriedAffiliations(board.graph) :
            \A n \in Stray(a) :
                /\ is_terminus(n) = 0
                /\ Cardinality(OwnEdges(a, n)) = 2
                /\ \A e \in OwnEdges(a, n) : e.ends \subseteq Stray(a)
                /\ Cardinality(Joined(a, { n })) >= 3

C26_Witness ==
    /\ solution.status = "Ok"
    /\ TwoTerminiEach
    /\ \E a \in CarriedAffiliations(board.graph) :
          /\ \A t \in TerminusNodes(board.graph, a) :
                TerminusNodes(board.graph, a) \subseteq Joined(a, { t })
          /\ \E n \in Stray(a) :
                LET cycle == Joined(a, { n })
                IN  /\ Cardinality(cycle) >= 3
                    /\ \A m \in cycle :
                          /\ Cardinality(OwnEdges(a, m)) = 2
                          /\ \A e \in OwnEdges(a, m) : e.ends \subseteq cycle

(***************************************************************************)
(* exactly_one on its own: a list of literals over a few variables, and    *)
(* the clauses exactly_one returns for it.                                 *)
(***************************************************************************)
NumLogicVars == 3

MaxLits == 3

LogicVars == 0..(NumLogicVars - 1)

LitInputs == { Lit(v, p) : v \in LogicVars, p \in BOOLEAN }

LitLists == UNION { [ 1..n -> LitInputs ] : n \in 0..MaxLits }

LogicInit ==
    /\ builder = with_dims(<< 1, 1 >>)
    /\ board = NoBoard
    /\ last = [ op |-> "with_dims", args |-> << >> ]
    /\ nops = 0
    /\ solution = NoSolution
    /\ solved = NoBoard
    /\ literals \in LitLists
    /\ clauses = NoClauses

ExactlyOne ==
    /\ ~ clauses.called
    /\ clauses' = [ called |-> TRUE, value |-> exactly_one(literals) ]
    /\ UNCHANGED << builder, board, last, nops, solution, solved, literals >>

LogicNext == ExactlyOne

LogicSpec == LogicInit /\ [][LogicNext]_vars

\* The literals of the list are distinct.
Distinct(lits) ==
    \A i, j \in 1..Len(lits) : i # j => lits[i] # lits[j]

\* The literal is true in the assignment (the set of the true variables).
Holds(model, lit) == (lit.var \in model) = lit.positive

\* C27: for an n-element list exactly_one returns n(n-1)/2 two-literal
\* clauses and then one n-literal clause; for the empty list that is the
\* single empty clause, which no assignment satisfies; for a non-empty list
\* of distinct literals an assignment satisfies all the clauses if and only
\* if exactly one literal of the list is true in it.
C27_ExactlyOneEncoding ==
    clauses.called =>
        LET n  == Len(literals)
            cs == clauses.value
        IN  /\ Len(cs) = (n * (n - 1)) \div 2 + 1
            /\ \A i \in 1..(Len(cs) - 1) : Len(cs[i]) = 2
            /\ Len(cs[Len(cs)]) = n
            /\ n = 0 =>
                  /\ cs = << << >> >>
                  /\ \A model \in SUBSET LogicVars : ~ Satisfies(model, cs[1])
            /\ (n > 0 /\ Distinct(literals)) =>
                  \A model \in SUBSET LogicVars :
                      (\A i \in 1..Len(cs) : Satisfies(model, cs[i]))
                        <=> Cardinality({ i \in 1..n : Holds(model, literals[i]) }) = 1

C27_Witness ==
    /\ clauses.called
    /\ Len(literals) = MaxLits
    /\ Distinct(literals)
    /\ \E i, j \in 1..Len(literals) : literals[i] = invert_lit(literals[j])
    /\ \E model \in SUBSET LogicVars :
          \A i \in 1..Len(clauses.value) : Satisfies(model, clauses.value[i])

\* C28: solve never returns NoAffFound. The variable of the subject at
\* position p for affiliation a has index p * (max_affiliation + 1) + a,
\* distinct for distinct pairs, and in every model of the clauses under the
\* assumptions every node has a true variable for an affiliation in
\* 1..max_affiliation and every edge one for an affiliation in
\* 0..max_affiliation.
C28_NoAffFoundNeverReturned ==
    /\ solution.failure # "NoAffFound"
    /\ solution # NoSolution =>
          LET s   == GraphSolverFrom(board.graph)
              hs  == s.affiliation_holders
              n   == Len(hs)
              var == [ p \in 1..n |->
                         [ a \in valid_affiliations(s) |->
                             affiliation_var(s, hs[p], a) ] ]
          IN  /\ \A p \in 1..n : \A a \in valid_affiliations(s) :
                    var[p][a] = (p - 1) * (s.max_affiliation + 1) + a
              /\ \A p, q \in 1..n : \A a, b \in valid_affiliations(s) :
                    var[p][a] = var[q][b] => (p = q /\ a = b)
              /\ \A model \in Models(s) : \A p \in 1..n :
                    \E a \in (IF hs[p][1] = "Node"
                               THEN valid_non_null_affiliations(s)
                               ELSE valid_affiliations(s)) :
                        var[p][a] \in model

C28_Witness ==
    /\ solution.status = "Ok"
    /\ MaxAffiliation = 2
    /\ \E e \in board.graph.edges : AffOfEdge(e) = 0
    /\ \E n \in board.graph.nodes : is_terminus(n) = 0 /\ AffOfNode(n) = 2

\* C29: solving a graph with at least one node and no terminus gives
\* Err(Inconsistent): max_affiliation is 0 and the exactly-one constraint of
\* every node ranges over no affiliation.
C29_NoTerminusInconsistent ==
    ( /\ solution # NoSolution
      /\ board.graph.nodes # {}
      /\ \A n \in board.graph.nodes : is_terminus(n) = 0 ) =>
        /\ MaxAffiliation = 0
        /\ solution = SolveErr("Inconsistent")
        /\ solved.status = "Err"

C29_Witness ==
    /\ solution # NoSolution
    /\ board.graph.nodes # {}
    /\ \A n \in board.graph.nodes : is_terminus(n) = 0
    /\ last.op = "pop_termini"

\* C30: on a valid builder that can take a call, disconnect_around(loc, dirs)
\* with loc on the board makes the builder invalid, with no reason but
\* FeatureOutOfBounds, exactly
\* when some direction of dirs leaves the board from loc (Up or Left from
\* coordinate 0 included); otherwise the builder stays valid and gains the
\* wall between loc and its neighbour for every direction, one per distinct
\* direction, and nothing else.
C30_DisconnectAroundOffGrid ==
    (Valid(builder) /\ board = NoBoard /\ nops < MaxOps) =>
        \A loc \in Grid(builder.dims), dirs \in DirLists :
            LET after == disconnect_around(builder, loc, dirs)
                steps == { dirs[i] : i \in 1..Len(dirs) }
                walls == { { loc, attempt_from(d, loc) } : d \in steps }
            IN  IF \E d \in steps : PointsOff(builder.dims, loc, d)
                THEN /\ after.invalid_reasons # << >>
                     /\ \A i \in 1..Len(after.invalid_reasons) :
                           after.invalid_reasons[i] = FeatureOutOfBounds
                ELSE /\ Valid(after)
                     /\ Cardinality(walls) = Cardinality(steps)
                     /\ after = [ builder EXCEPT
                                    !.edge_blacklist = @ \cup walls ]

C30_Witness ==
    /\ last.op = "disconnect_around"
    /\ nops = 1
    /\ last.args[1] \in Grid(builder.dims)
    /\ \E i \in 1..Len(last.args[2]) :
          /\ last.args[2][i] \in { "Up", "Left" }
          /\ PointsOff(builder.dims, last.args[1], last.args[2][i])
    /\ builder.invalid_reasons = << FeatureOutOfBounds >>

====
